---- MODULE Spec2Model ----
(***************************************************************************)
(* A model of rtr_moveit's RTRPlanningContext                              *)
(* (src/rtr_moveit/src/rtr_planning_context.cpp): configure(), the core    *)
(* solve() with its goal resolution, scene translation, start resolution   *)
(* and candidate loop, terminate() and clear().                            *)
(*                                                                         *)
(* One context object is modelled.  Its calls are synchronous, so a call   *)
(* of solve() is a sequence of steps guarded by pc; configure(),           *)
(* clear() and the framework's setters run only between                    *)
(* calls of solve().  Time is an integer number of ticks (seconds in the   *)
(* code); it advances inside the blocking calls (a sampler draw, an engine *)
(* search).  Everything answered by a collaborator that is not part of the *)
(* source (the engine, the samplers, the scene) is a nondeterministic      *)
(* choice from a small set.                                                *)
(*                                                                         *)
(* Spec is the context planning through solve(trajectory, planning_time).  *)
(* TerminateSpec adds terminate(), which another thread may call at any    *)
(* time, also while solve() runs.  DetailedSpec plans through              *)
(* solve(MotionPlanDetailedResponse&).  LiveSpec is Spec with the fairness *)
(* under which a call that has begun goes on.                              *)
(***************************************************************************)
EXTENDS Integers, Sequences, FiniteSets

(* ------------------------------------------------------------------ *)
(* Bounds of the model                                                *)
(* ------------------------------------------------------------------ *)

\* the largest number of goal constraints in one request
MaxGoals == 2

\* the largest allowed_planning_time of a request, in ticks
MaxPlanningTime == 2

\* solve() is entered only while goals_ can take the request's constraints
\* without growing beyond this length (goals_ is never emptied by the code)
MaxStoredGoals == 3

(* ------------------------------------------------------------------ *)
(* Program constants                                                  *)
(* ------------------------------------------------------------------ *)

\* const int max_goal_states = 1;
MaxGoalStates == 1

\* const double allowed_joint_distance = M_PI; joint values of the model are
\* integers, so that  d <= M_PI  is  d <= 3
AllowedJointDistance == 3

\* moveit_msgs::MoveItErrorCodes values
SUCCESS == "SUCCESS"
FAILURE == "FAILURE"
PLANNING_FAILED == "PLANNING_FAILED"
TIMED_OUT == "TIMED_OUT"

(* ------------------------------------------------------------------ *)
(* The collaborators' answers                                         *)
(* ------------------------------------------------------------------ *)

\* jmg_->getActiveJointModelNames() of the planning group
ActiveJointModelNames == <<"j1", "j2">>

\* the group's joint positions in planning_scene_->getCurrentState()
CurrentPositions == <<0, 0>>

\* what getRoadmapConfigs() may write into roadmap_configs_: nothing, a
\* roadmap of the group's dimension, one of another dimension, and one whose
\* vectors differ in length
RoadmapFiles ==
  { <<>>,
    << <<0, 0>>, <<2, 1>> >>,
    << <<0>>, <<2>> >>,
    << <<0, 0>>, <<2>> >> }

\* what getRoadmapTransforms() may write into roadmap_poses_
PoseFiles == { <<>>, <<"pose0", "pose1">> }

\* the joint values a sampler may draw for the group
Samples == { <<1, 0>>, <<9, 9>> }

\* the paths the engine may write into solution_path
Paths == { <<>>, << <<0, 0>> >>, << <<0, 0>>, <<2, 1>> >> }

\* the kinds of goal constraint: with joint constraints, or with no
\* joint, position or orientation constraint at all
ConstraintKinds == {"joint", "none"}

RECURSIVE SeqsUpTo(_, _)
SeqsUpTo(S, n) ==
  IF n = 0 THEN { <<>> }
  ELSE LET shorter == SeqsUpTo(S, n - 1)
       IN  shorter \cup { Append(s, x) : s \in { t \in shorter : Len(t) = n - 1 }, x \in S }

\* request_.start_state.joint_state of the requests that are tried
StartStates ==
  { [name |-> <<>>, position |-> <<>>],
    [name |-> <<"j1">>, position |-> <<5>>],
    [name |-> <<"j1", "j1">>, position |-> <<5, 6>>],
    [name |-> <<"j2", "j3", "j1">>, position |-> <<5, 6, 7>>] }

\* request_.allowed_planning_time of the requests that are tried
AllowedPlanningTimes == {-1, 0, MaxPlanningTime}

\* request_.goal_constraints of the requests that are tried: up to MaxGoals
\* constraints, the first of which may be one of kind "none"
GoalConstraintLists ==
  SeqsUpTo({"joint"}, MaxGoals)
    \cup { <<"none">> \o s : s \in SeqsUpTo({"joint"}, MaxGoals - 1) }

\* the planning_interface::MotionPlanRequest values that are tried
Requests ==
  [ goal_constraints : GoalConstraintLists,
    allowed_planning_time : AllowedPlanningTimes,
    start_state : [joint_state : StartStates] ]

\* a default-constructed MotionPlanRequest
DefaultRequest ==
  [ goal_constraints |-> <<>>,
    allowed_planning_time |-> 0,
    start_state |-> [joint_state |-> [name |-> <<>>, position |-> <<>>]] ]

\* a reference parameter of solve() (trajectory, planning_time) is modelled by
\* the sequence of what the call has written to it: empty while the caller's
\* own value is still in it
Unwritten == <<>>

(* ------------------------------------------------------------------ *)
(* State                                                              *)
(* ------------------------------------------------------------------ *)

\* no response: the call of solve() is not one of
\* solve(MotionPlanDetailedResponse&)
NoResponse ==
  [ trajectory_ |-> << >>, processing_time_ |-> << >>, description_ |-> << >>,
    error_code_ |-> "NONE" ]

\* no return value yet; a returned value v is << v >>
NotReturned == << >>

\* an entry an earlier call has left in the trajectories or the processing
\* times of the response, and one it has left in the descriptions
EarlierEntry == [earlier |-> TRUE, value |-> << >>]

EarlierDescription == "earlier"

\* the sizes of the lists of the responses callers pass
ResponseSizes == {0, 1}

\* the elements resize() adds: a null RobotTrajectoryPtr and the time 0.0
NullTrajectory == [earlier |-> FALSE, value |-> << >>]

ZeroTime == [earlier |-> FALSE, value |-> << 0 >>]

\* list.resize(1): the entries of earlier calls are gone
Resized_Cleared(list, value) == << value >>

\* solve(MotionPlanDetailedResponse&):  list.resize(list.size() + 1)
Resized(list, value) == Append(list, value)

\* the list after solve() has run on a reference to its last element:
\* written is << >> when solve() has not assigned it, << v >> when it has
\* assigned v
WrittenBack(list, written) ==
  IF written = << >> THEN list ELSE [list EXCEPT ![Len(list)].value = written]

VARIABLES
  planning_scene_,       \* TRUE when a planning scene has been set
  engine_ready,          \* planner_interface_->isReady()
  configured_,           \* bool configured_
  error_code,            \* the caller's error code: what configure() wrote to it,
                         \*   "NONE" once a call of solve() has returned since
  joint_model_names_,    \* std::vector<std::string> joint_model_names_
  roadmap_configs_,      \* std::vector<rtr::Config> roadmap_configs_
  roadmap_poses_,        \* roadmap_poses_
  request_,              \* the MotionPlanRequest of the context
  goals_,                \* std::vector<RapidPlanGoal> goals_
  goal_states_,          \* goal_states_, the sampled states of goals_
  terminate_plan_time_,  \* ros::Time terminate_plan_time_
  now,                   \* ros::Time::now()
  pc,                    \* where the current call of solve() is
  start_time,            \* solve(): start_time
  result,                \* solve(): result.val
  ci,                    \* initRapidPlanGoals(): index of goal_constraint
  collision_voxels,      \* solve(): collision_voxels ("none" before the conversion)
  start_config,          \* solve(): start_config
  gi,                    \* solve(): index of goal in the loop over goals_
  solution_path,         \* solve(): solution_path
  trajectory,            \* the caller's trajectory (reference parameter)
  planning_time,         \* the caller's planning_time (reference parameter)
  engine_calls,          \* history: the engine searches of the current call
  stages,                \* history: the stages the current call has entered
  resolved,              \* history: per constraint of the current call, whether
                         \*   getRapidPlanGoal() returned true
  res,                   \* the caller's MotionPlanDetailedResponse in a call of
                         \*   solve(MotionPlanDetailedResponse&), NoResponse otherwise
  detailed_return,       \* what solve(MotionPlanDetailedResponse&) returned
  terminate_result       \* what the last call of terminate() returned

vars ==
  << planning_scene_, engine_ready, configured_, error_code, joint_model_names_,
     roadmap_configs_, roadmap_poses_, request_, goals_, goal_states_,
     terminate_plan_time_, now, pc, start_time, result, ci, collision_voxels,
     start_config, gi, solution_path, trajectory, planning_time, engine_calls,
     stages, resolved, res, detailed_return, terminate_result >>

\* what the callers of solve(MotionPlanDetailedResponse&) and of terminate()
\* hold
api_vars == << res, detailed_return, terminate_result >>

\* the members configure() writes
config_vars ==
  << engine_ready, configured_, error_code, joint_model_names_, roadmap_configs_,
     roadmap_poses_ >>

\* the locals and reference parameters of a call of solve(), and its history
call_vars ==
  << start_time, result, ci, collision_voxels, start_config, gi, solution_path,
     trajectory, planning_time, engine_calls, stages, resolved >>

Init ==
  /\ planning_scene_ = FALSE
  /\ engine_ready = FALSE
  /\ configured_ = FALSE
  /\ error_code = "NONE"
  /\ joint_model_names_ = <<>>
  /\ roadmap_configs_ = <<>>
  /\ roadmap_poses_ = <<>>
  /\ request_ = DefaultRequest
  /\ goals_ = <<>>
  /\ goal_states_ = <<>>
  /\ terminate_plan_time_ = 0
  /\ now = 0
  /\ pc = "idle"
  /\ start_time = 0
  /\ result = "NONE"
  /\ ci = 0
  /\ collision_voxels = "none"
  /\ start_config = <<>>
  /\ gi = 0
  /\ solution_path = <<>>
  /\ trajectory = Unwritten
  /\ planning_time = Unwritten
  /\ engine_calls = <<>>
  /\ stages = {}
  /\ resolved = <<>>
  /\ res = NoResponse
  /\ detailed_return = NotReturned
  /\ terminate_result = NotReturned

(* ------------------------------------------------------------------ *)
(* Pure functions                                                     *)
(* ------------------------------------------------------------------ *)

Abs(x) == IF x < 0 THEN -x ELSE x

Min(a, b) == IF a < b THEN a ELSE b

RECURSIVE SumTo(_, _)
\* f[1] + ... + f[n]
SumTo(f, n) == IF n = 0 THEN 0 ELSE SumTo(f, n - 1) + f[n]

\* the joint-space distance of two configurations: the sum of the joint
\* differences (over the joints both have, when the lengths differ)
ConfigDistance(a, b) ==
  LET n == Min(Len(a), Len(b))
  IN  SumTo([i \in 1..n |-> Abs(a[i] - b[i])], n)

RECURSIVE ClosestIds(_, _, _, _)
\* the ids (positions, from 0) of the at most max_count configurations of
\* `configs` nearest to `config`, nearest first, `taken` left out
ClosestIds(config, configs, taken, max_count) ==
  LET left == { i \in 1..Len(configs) : i \notin taken }
  IN  IF max_count = 0 \/ left = {} THEN <<>>
      ELSE LET best == CHOOSE i \in left :
                         \A j \in left :
                           \/ ConfigDistance(config, configs[i]) < ConfigDistance(config, configs[j])
                           \/ /\ ConfigDistance(config, configs[i]) = ConfigDistance(config, configs[j])
                              /\ i <= j
           IN  <<best - 1>> \o ClosestIds(config, configs, taken \cup {best}, max_count - 1)

\* findClosestConfigs(config, roadmap_configs, result_ids, distances,
\* max_count, max_distance): the state ids written to result_ids
FindClosestConfigs(config, configs, max_count, max_distance) ==
  LET near == { i \in 1..Len(configs) : ConfigDistance(config, configs[i]) <= max_distance }
  IN  ClosestIds(config, configs, (1..Len(configs)) \ near, max_count)

\* initRapidPlanGoals() without its check of an empty constraint list
InitRapidPlanGoalsSuccess_NoEmptyCheck(goal_constraints, goals) == goals # <<>>

\* initRapidPlanGoals(): the value returned after the loop over the constraints
InitRapidPlanGoalsSuccess(goal_constraints, goals) ==
  IF goal_constraints = <<>> THEN FALSE
  ELSE IF goals = <<>> THEN FALSE
  ELSE TRUE

RECURSIVE MatchingPositions(_, _, _, _)
\* initStartState(): the inner loop for one joint_name, i = from .. num_joints
MatchingPositions(joint_name, joint_state, from, num_joints) ==
  IF from > num_joints THEN <<>>
  ELSE (IF joint_name = joint_state.name[from] THEN <<joint_state.position[from]>> ELSE <<>>)
       \o MatchingPositions(joint_name, joint_state, from + 1, num_joints)

RECURSIVE RequestedStartConfig(_, _, _)
\* initStartState(): the outer loop over joint_model_names_, from joint k on
RequestedStartConfig(joint_names, joint_state, k) ==
  IF k > Len(joint_names) THEN <<>>
  ELSE MatchingPositions(joint_names[k], joint_state, 1, Len(joint_state.position))
       \o RequestedStartConfig(joint_names, joint_state, k + 1)

\* initStartState(): whether the start_config built from the request is taken
StartConfigMatches(config, joint_names) == Len(config) = Len(joint_names)

\* initStartState(start_config): [ok |-> the value returned, config |-> start_config]
InitStartState(joint_state, joint_names) ==
  IF joint_state.position # <<>>
  THEN LET config == RequestedStartConfig(joint_names, joint_state, 1)
       IN  [ok |-> StartConfigMatches(config, joint_names), config |-> config]
  ELSE [ok |-> TRUE, config |-> CurrentPositions]

\* pathRtrToRobotTrajectory(): the waypoints of the path, for the named joints
PathRtrToRobotTrajectory(path, joint_names) ==
  [joint_names |-> joint_names, waypoints |-> path]

\* solve() with the whole planning time as timeout, not what remains of it
Timeout_NotRemaining(terminate, t) == (terminate - start_time) * 1000

\* solve(): timeout, in milliseconds
Timeout(terminate, t) == (terminate - t) * 1000

\* what planningSceneToRtrCollisionVoxels() may leave in collision_voxels:
\* the voxels of the scene, or nothing when the conversion failed
SceneConversions == {"voxels", "failed"}

\* solve() without the guard on configured_
SolveRefuses_Never(configured) == FALSE

\* solve(): the guard  if (!configured_) return result;
SolveRefuses(configured) == ~configured

\* solve() without the check of an empty solution path
SearchVerdict_EmptyIsSuccess(ok, path) == IF ok THEN "success" ELSE "clear"

\* solve(): what follows an engine search that returned `ok` with `path`
SearchVerdict(ok, path) ==
  IF ok
  THEN IF path = <<>> THEN "continue" ELSE "success"
  ELSE "clear"

\* solve() with  timeout < 0.0  as the check
TimedOut_Strict(timeout) == timeout < 0

\* getRapidPlanGoal(): the samplers built for a constraint, one for its
\* joint constraints, none for a constraint without sub-constraints
Samplers(kind) == IF kind = "joint" THEN << "joint_sampler" >> ELSE << >>

\* getRapidPlanGoal(): what one call of union_sampler.sample() can give,
\* <<>> for a failed draw; the union sampler is built and sampled whatever
\* the list of samplers holds
SamplerDraws(samplers) == {<<>>} \cup Samples

\* getRapidPlanGoal() returning a goal whatever findClosestConfigs found
GoalFound_Always(state_ids) == TRUE

\* getRapidPlanGoal(): the check  if (!goal.state_ids.empty())
GoalFound(state_ids) == state_ids # <<>>

\* solve() resetting the trajectory before the check of the empty path
ResetsTrajectory_BeforeEmptyCheck(verdict) == verdict \in {"success", "continue"}

\* solve(): trajectory.reset() is reached only with a non-empty path
ResetsTrajectory(verdict) == verdict = "success"

\* solve() without the check of the timeout
TimedOut_Never(timeout) == FALSE

\* solve(): the check  if (timeout <= 0.0)  before a goal is searched
TimedOut(timeout) == timeout <= 0

\* getRapidPlanGoal() leaving the sampling loop one second early
SamplingTimeLeft_Early(t, terminate) == t + 1 < terminate

\* getRapidPlanGoal(): the loop condition  ros::Time::now() < terminate_plan_time_
SamplingTimeLeft(t, terminate) == t < terminate

\* solve() without the  break;  after a solution
SuccessBreak_Missing == FALSE

\* solve(): the  break;  that follows the conversion of the solution path
SuccessBreak == TRUE

\* solve(): the goal of the loop's k-th iteration, for (goal : goals_)
GoalAt(goals, k) == goals[k]

(* ------------------------------------------------------------------ *)
(* The framework's setters                                            *)
(* ------------------------------------------------------------------ *)

\* PlanningContext::setPlanningScene()
SetPlanningScene ==
  /\ pc = "idle"
  /\ planning_scene_' = TRUE
  /\ UNCHANGED << config_vars, request_, goals_, goal_states_, terminate_plan_time_,
                  now, pc, call_vars >>
  /\ UNCHANGED api_vars

\* PlanningContext::setMotionPlanRequest()
SetMotionPlanRequest ==
  /\ pc = "idle"
  /\ request_' \in Requests
  /\ UNCHANGED << planning_scene_, config_vars, goals_, goal_states_,
                  terminate_plan_time_, now, pc, call_vars >>
  /\ UNCHANGED api_vars

(* ------------------------------------------------------------------ *)
(* configure()                                                        *)
(* ------------------------------------------------------------------ *)

\* configure(error_code); the engine answers initialize() with init_ok,
\* getRoadmapConfigs() with configs_ok after writing configs, and
\* getRoadmapTransforms() with poses_ok after writing poses
Configure ==
  /\ pc = "idle"
  /\ \E init_ok \in BOOLEAN, configs_ok \in BOOLEAN, configs \in RoadmapFiles,
        poses_ok \in BOOLEAN, poses \in PoseFiles :
       IF ~planning_scene_
       THEN /\ error_code' = FAILURE
            /\ UNCHANGED << engine_ready, configured_, joint_model_names_,
                            roadmap_configs_, roadmap_poses_ >>
       ELSE /\ joint_model_names_' = ActiveJointModelNames
            /\ engine_ready' = (engine_ready \/ init_ok)
            /\ IF ~engine_ready /\ ~init_ok
               THEN /\ error_code' = FAILURE
                    /\ UNCHANGED << configured_, roadmap_configs_, roadmap_poses_ >>
               ELSE /\ roadmap_configs_' = configs
                    /\ IF ~configs_ok \/ configs = <<>>
                       THEN /\ error_code' = FAILURE
                            /\ UNCHANGED << configured_, roadmap_poses_ >>
                       ELSE IF Len(configs[1]) # Len(ActiveJointModelNames)
                       THEN /\ error_code' = FAILURE
                            /\ UNCHANGED << configured_, roadmap_poses_ >>
                       ELSE /\ roadmap_poses_' = poses
                            /\ IF ~poses_ok \/ poses = <<>>
                               THEN /\ error_code' = FAILURE
                                    /\ UNCHANGED configured_
                               ELSE /\ error_code' = SUCCESS
                                    /\ configured_' = TRUE
  /\ UNCHANGED << planning_scene_, request_, goals_, goal_states_,
                  terminate_plan_time_, now, pc, call_vars >>
  /\ UNCHANGED api_vars

(* ------------------------------------------------------------------ *)
(* solve(trajectory, planning_time)                                   *)
(* ------------------------------------------------------------------ *)

\* solve() is called: the deadline is set, and the call is refused when the
\* context is not configured
SolveCore ==
  /\ pc = "idle"
  /\ Len(goals_) + Len(request_.goal_constraints) <= MaxStoredGoals
  /\ start_time' = now
  /\ terminate_plan_time_' = now + request_.allowed_planning_time
  /\ result' = FAILURE
  /\ IF SolveRefuses(configured_)
     THEN /\ pc' = "done"
          /\ UNCHANGED << ci, stages >>
     ELSE /\ pc' = "goals"
          /\ ci' = 1
          /\ stages' = stages \cup {"goals"}
  /\ UNCHANGED << planning_scene_, config_vars, request_, goals_, goal_states_, now,
                  collision_voxels, start_config, gi, solution_path, trajectory,
                  planning_time, engine_calls, resolved >>

\* solve(trajectory, planning_time) is called by a caller of its own
SolveEnter ==
  /\ SolveCore
  /\ UNCHANGED api_vars

\* solve(MotionPlanDetailedResponse&) is called with a response that holds
\* n entries: both lists are resized by one and solve() is called on their
\* last elements
SolveDetailedEnter ==
  /\ \E n \in ResponseSizes :
       res' = [ trajectory_      |-> Resized([i \in 1..n |-> EarlierEntry], NullTrajectory),
                processing_time_ |-> Resized([i \in 1..n |-> EarlierEntry], ZeroTime),
                description_     |-> [i \in 1..n |-> EarlierDescription],
                error_code_      |-> "NONE" ]
  /\ SolveCore
  /\ UNCHANGED << detailed_return, terminate_result >>

\* getRapidPlanGoal(): one iteration of the sampling loop for constraint ci;
\* the sampler takes dt and fails or draws a sample
SampleGoal ==
  /\ pc = "goals"
  /\ ci <= Len(request_.goal_constraints)
  /\ SamplingTimeLeft(now, terminate_plan_time_)
  /\ \E dt \in 0..1,
        draw \in SamplerDraws(Samplers(request_.goal_constraints[ci])) :
       /\ now' = now + dt
       /\ IF draw = <<>>
          THEN UNCHANGED << goals_, goal_states_, ci, resolved >>
          ELSE LET state_ids == FindClosestConfigs(draw, roadmap_configs_, MaxGoalStates,
                                                   AllowedJointDistance)
               IN  IF GoalFound(state_ids)
                   THEN /\ goals_' = Append(goals_, [type |-> "STATE_IDS", state_ids |-> state_ids])
                        /\ goal_states_' = Append(goal_states_, draw)
                        /\ ci' = ci + 1
                        /\ resolved' = Append(resolved, TRUE)
                   ELSE UNCHANGED << goals_, goal_states_, ci, resolved >>
  /\ UNCHANGED << planning_scene_, config_vars, request_, terminate_plan_time_, pc,
                  start_time, result, collision_voxels, start_config, gi, solution_path,
                  trajectory, planning_time, engine_calls, stages >>
  /\ UNCHANGED api_vars

\* getRapidPlanGoal(): the sampling loop ends at the deadline and constraint
\* ci gives no goal
GoalDeadline ==
  /\ pc = "goals"
  /\ ci <= Len(request_.goal_constraints)
  /\ ~SamplingTimeLeft(now, terminate_plan_time_)
  /\ ci' = ci + 1
  /\ resolved' = Append(resolved, FALSE)
  /\ UNCHANGED << planning_scene_, config_vars, request_, goals_, goal_states_,
                  terminate_plan_time_, now, pc, start_time, result, collision_voxels,
                  start_config, gi, solution_path, trajectory, planning_time,
                  engine_calls, stages >>
  /\ UNCHANGED api_vars

\* initRapidPlanGoals() returns, and solve() returns FAILURE if it failed
InitRapidPlanGoalsEnd ==
  /\ pc = "goals"
  /\ ci > Len(request_.goal_constraints)
  /\ pc' = IF InitRapidPlanGoalsSuccess(request_.goal_constraints, goals_)
           THEN "scene" ELSE "done"
  /\ UNCHANGED << planning_scene_, config_vars, request_, goals_, goal_states_,
                  terminate_plan_time_, now, call_vars >>
  /\ UNCHANGED api_vars

\* solve(): the scene is converted to collision voxels; nothing is returned
\* by the conversion and nothing is checked after it
TranslateScene ==
  /\ pc = "scene"
  /\ collision_voxels' \in SceneConversions
  /\ stages' = stages \cup {"scene"}
  /\ pc' = "start"
  /\ UNCHANGED << planning_scene_, config_vars, request_, goals_, goal_states_,
                  terminate_plan_time_, now, start_time, result, ci, start_config, gi,
                  solution_path, trajectory, planning_time, engine_calls, resolved >>
  /\ UNCHANGED api_vars

\* solve(): initStartState(start_config), FAILURE if it fails; the loop over
\* goals_ is entered, and left at once if goals_ is empty
ResolveStart ==
  /\ pc = "start"
  /\ LET start == InitStartState(request_.start_state.joint_state, joint_model_names_)
     IN  /\ start_config' = start.config
         /\ IF start.ok
            THEN /\ result' = PLANNING_FAILED
                 /\ gi' = 1
                 /\ IF goals_ = <<>>
                    THEN /\ planning_time' = << now - start_time >>
                         /\ pc' = "done"
                    ELSE /\ pc' = "search"
                         /\ UNCHANGED planning_time
            ELSE /\ pc' = "done"
                 /\ UNCHANGED << result, gi, planning_time >>
  /\ stages' = stages \cup {"start"}
  /\ UNCHANGED << planning_scene_, config_vars, request_, goals_, goal_states_,
                  terminate_plan_time_, now, start_time, ci, collision_voxels,
                  solution_path, trajectory, engine_calls, resolved >>
  /\ UNCHANGED api_vars

\* solve(): one iteration of the loop over goals_; the engine search takes
\* dt and returns ok after writing path into solution_path.  When the loop
\* is left (break, or no goal remains) planning_time is written and the
\* result returned
SearchGoal ==
  /\ pc = "search"
  /\ gi <= Len(goals_)
  /\ LET timeout == Timeout(terminate_plan_time_, now)
     IN  IF TimedOut(timeout)
         THEN /\ result' = TIMED_OUT
              /\ planning_time' = << now - start_time >>
              /\ pc' = "done"
              /\ UNCHANGED << now, gi, solution_path, trajectory, engine_calls, stages >>
         ELSE \E ok \in BOOLEAN, path \in Paths, dt \in 0..1 :
                LET verdict == SearchVerdict(ok, path)
                    leave == (verdict = "success" /\ SuccessBreak) \/ gi = Len(goals_)
                IN  /\ now' = now + dt
                    /\ engine_calls' = Append(engine_calls,
                          [ goal |-> GoalAt(goals_, gi), index |-> gi, timeout |-> timeout,
                            took |-> dt, ok |-> ok, path |-> IF ok THEN path ELSE <<>> ])
                    /\ stages' = stages \cup {"engine"}
                    /\ gi' = gi + 1
                    /\ IF verdict = "success"
                       THEN /\ result' = SUCCESS
                            /\ solution_path' = path
                       ELSE /\ solution_path' = <<>>
                            /\ UNCHANGED result
                    /\ trajectory' =
                         IF ResetsTrajectory(verdict)
                         THEN << PathRtrToRobotTrajectory(path, joint_model_names_) >>
                         ELSE trajectory
                    /\ planning_time' = IF leave THEN << now + dt - start_time >> ELSE planning_time
                    /\ pc' = IF leave THEN "done" ELSE "search"
  /\ UNCHANGED << planning_scene_, config_vars, request_, goals_, goal_states_,
                  terminate_plan_time_, start_time, ci, collision_voxels, start_config,
                  resolved >>
  /\ UNCHANGED api_vars

\* solve(MotionPlanDetailedResponse&): solve() has returned; what it wrote
\* through its reference parameters is in the last elements of the lists,
\* the error code is stored, "plan" is added to the descriptions and the
\* call returns whether the code is SUCCESS
SolveDetailedEnd ==
  /\ pc = "done"
  /\ res # NoResponse
  /\ pc' = "responded"
  /\ res' = [ trajectory_      |-> WrittenBack(res.trajectory_, trajectory),
              processing_time_ |-> WrittenBack(res.processing_time_, planning_time),
              description_     |-> Append(res.description_, "plan"),
              error_code_      |-> result ]
  /\ detailed_return' = << result = SUCCESS >>
  /\ UNCHANGED << planning_scene_, config_vars, request_, goals_, goal_states_,
                  terminate_plan_time_, now, call_vars, terminate_result >>

\* the caller has the result; the locals and the history of the call are
\* gone, error_code no longer tells the result of the last call, and times
\* are counted from here on (only differences of times read in one call are
\* used, and terminate_plan_time_ is written before it is read)
SolveReturn ==
  /\ pc = (IF res = NoResponse THEN "done" ELSE "responded")
  /\ res' = NoResponse
  /\ detailed_return' = NotReturned
  /\ UNCHANGED terminate_result
  /\ pc' = "idle"
  /\ now' = 0
  /\ terminate_plan_time_' = 0
  /\ start_time' = 0
  /\ result' = "NONE"
  /\ ci' = 0
  /\ collision_voxels' = "none"
  /\ start_config' = <<>>
  /\ gi' = 0
  /\ solution_path' = <<>>
  /\ trajectory' = Unwritten
  /\ planning_time' = Unwritten
  /\ engine_calls' = <<>>
  /\ stages' = {}
  /\ resolved' = <<>>
  /\ error_code' = "NONE"
  /\ UNCHANGED << planning_scene_, engine_ready, configured_, joint_model_names_,
                  roadmap_configs_, roadmap_poses_, request_, goals_, goal_states_ >>

(* ------------------------------------------------------------------ *)
(* terminate() and clear()                                            *)
(* ------------------------------------------------------------------ *)

\* terminate() returning true
TerminateReturns_True == TRUE

\* terminate():  return false;
TerminateReturns == FALSE

\* terminate(): warns and returns false
Terminate ==
  /\ terminate_result' = << TerminateReturns >>
  /\ UNCHANGED << planning_scene_, config_vars, request_, goals_, goal_states_,
                  terminate_plan_time_, now, pc, call_vars, res, detailed_return >>

\* clear(): empty
Clear ==
  /\ pc = "idle"
  /\ UNCHANGED vars

Next ==
  \/ SetPlanningScene
  \/ SetMotionPlanRequest
  \/ Configure
  \/ SolveEnter
  \/ SampleGoal
  \/ GoalDeadline
  \/ InitRapidPlanGoalsEnd
  \/ TranslateScene
  \/ ResolveStart
  \/ SearchGoal
  \/ SolveReturn
  \/ Clear

Spec == Init /\ [][Next]_vars

\* a step of a running call of solve()
SolveStep ==
  \/ SampleGoal
  \/ GoalDeadline
  \/ InitRapidPlanGoalsEnd
  \/ TranslateScene
  \/ ResolveStart
  \/ SearchGoal

\* an iteration of the sampling loop during which the clock advances
SampleGoalTick == SampleGoal /\ now' > now

\* a call of solve() that has begun goes on with its next step, and the
\* clock does not stand still for ever while the sampling loop runs
LiveSpec ==
  /\ Init
  /\ [][Next]_vars
  /\ WF_vars(SolveStep)
  /\ WF_vars(SampleGoalTick)

\* the context with terminate() called at any time, between calls of
\* solve() and while one runs
TerminateNext ==
  \/ Next
  \/ Terminate

TerminateSpec == Init /\ [][TerminateNext]_vars

\* the context planning through solve(MotionPlanDetailedResponse&)
DetailedNext ==
  \/ SetPlanningScene
  \/ SetMotionPlanRequest
  \/ Configure
  \/ SolveDetailedEnter
  \/ SampleGoal
  \/ GoalDeadline
  \/ InitRapidPlanGoalsEnd
  \/ TranslateScene
  \/ ResolveStart
  \/ SearchGoal
  \/ SolveDetailedEnd
  \/ SolveReturn
  \/ Clear

DetailedSpec == Init /\ [][DetailedNext]_vars

(* ------------------------------------------------------------------ *)
(* Properties                                                         *)
(* ------------------------------------------------------------------ *)

\* the elements of a sequence
Range(seq) == { seq[i] : i \in 1..Len(seq) }

\* a call of solve() is running or has just returned its result
InCall == pc # "idle"

\* the number of constraints of the current call that gave a goal
NumResolved == Cardinality({ i \in 1..Len(resolved) : resolved[i] })

\* some constraint of the current call gave a goal and another gave none
PartlyResolved == TRUE \in Range(resolved) /\ FALSE \in Range(resolved)

\* the engine search k of the current call returned a non-empty path
FoundPath(k) == engine_calls[k].ok /\ engine_calls[k].path # <<>>

\* the engine search k of the current call returned success and no path
FoundEmptyPath(k) == engine_calls[k].ok /\ engine_calls[k].path = <<>>

\* start resolution succeeds for the request of the context
StartResolves == InitStartState(request_.start_state.joint_state, joint_model_names_).ok

\* the deadline of the current call had passed when it was entered
DeadlinePassedAtEntry == request_.allowed_planning_time <= 0

\* C1: while the context is not configured, a call of solve() returns
\* FAILURE at once: it enters no stage (goal resolution, scene translation,
\* start resolution, engine search), resolves no constraint and never calls
\* the engine.
C1_UnconfiguredRefuses ==
  (InCall /\ ~configured_) =>
    /\ pc = "done"
    /\ result = FAILURE
    /\ stages = {}
    /\ resolved = <<>>
    /\ collision_voxels = "none"
    /\ start_config = <<>>
    /\ engine_calls = <<>>

\* C1: solve() has refused a request with goal constraints and planning
\* time on a context whose configure() had failed
C1_Witness ==
  /\ pc = "done"
  /\ ~configured_
  /\ error_code = FAILURE
  /\ request_.goal_constraints # <<>>
  /\ request_.allowed_planning_time > 0
  /\ result = FAILURE

\* C2 (as claimed): when the last configure() returned FAILURE, the next
\* solve() returns FAILURE; it tries to resolve no goal constraint, gets
\* past goal resolution to no later stage and never calls the engine,
\* whatever configure() and solve() calls came before.
C2_FailedConfigureRefuses ==
  (InCall /\ error_code = FAILURE) =>
    /\ resolved = <<>>
    /\ stages \subseteq {"goals"}
    /\ engine_calls = <<>>
    /\ pc = "done" => result = FAILURE

\* C3: a call of solve() whose request has no goal constraints never gets
\* past goal resolution, never calls the engine and returns FAILURE, also
\* when goals_ holds goals of earlier calls.
C3_EmptyGoalsFail ==
  (InCall /\ request_.goal_constraints = <<>>) =>
    /\ pc \in {"goals", "done"}
    /\ result = FAILURE
    /\ stages \subseteq {"goals"}
    /\ engine_calls = <<>>

\* C3: a configured context that holds goals of earlier calls has returned
\* FAILURE for a request without goal constraints
C3_Witness ==
  /\ pc = "done"
  /\ configured_
  /\ request_.goal_constraints = <<>>
  /\ goals_ # <<>>
  /\ stages = {"goals"}
  /\ result = FAILURE

\* C4: first success wins.  The k-th engine search of a call is for the
\* k-th goal of goals_; a search that returns a non-empty path is the last
\* of the call, which returns SUCCESS with the trajectory made from that path.
C4_FirstSuccessWins ==
  \A k \in 1..Len(engine_calls) :
    /\ engine_calls[k].index = k
    /\ engine_calls[k].goal = goals_[k]
    /\ FoundPath(k) =>
         /\ k = Len(engine_calls)
         /\ pc = "done"
         /\ result = SUCCESS
         /\ solution_path = engine_calls[k].path
         /\ trajectory = << PathRtrToRobotTrajectory(engine_calls[k].path, joint_model_names_) >>

\* C4: of three goals the first failed, the second gave a path, and the
\* third was never searched
C4_Witness ==
  /\ pc = "done"
  /\ result = SUCCESS
  /\ Len(goals_) = 3
  /\ Len(engine_calls) = 2
  /\ ~engine_calls[1].ok
  /\ FoundPath(2)

\* C5: an empty path is not a success.  solve() has result SUCCESS only
\* when its last engine search returned a non-empty path; after a search
\* that returned success with an empty path the loop goes on to the next
\* goal, if there is one; and when every goal was searched and none gave a
\* non-empty path, solve() returns PLANNING_FAILED and writes no trajectory.
C5_EmptyPathIsNotSuccess ==
  /\ result = SUCCESS => (engine_calls # <<>> /\ FoundPath(Len(engine_calls)))
  /\ \A k \in 1..Len(engine_calls) :
       FoundEmptyPath(k) =>
         \/ k < Len(engine_calls)
         \/ pc = "search" /\ gi = k + 1 /\ k < Len(goals_)
         \/ pc = "done" /\ result = TIMED_OUT /\ gi = k + 1 /\ k < Len(goals_)
         \/ pc = "done" /\ result = PLANNING_FAILED /\ k = Len(goals_)
  /\ ( /\ pc = "done"
       /\ engine_calls # <<>>
       /\ Len(engine_calls) = Len(goals_)
       /\ \A k \in 1..Len(engine_calls) : ~FoundPath(k) ) =>
       (result = PLANNING_FAILED /\ trajectory = Unwritten)

\* C5: the first search returned success with an empty path, a later goal
\* was searched, and the call returned PLANNING_FAILED without a trajectory
C5_Witness ==
  /\ pc = "done"
  /\ result = PLANNING_FAILED
  /\ Len(engine_calls) >= 2
  /\ FoundEmptyPath(1)
  /\ trajectory = Unwritten

C7_PartialResolutionSearches ==
  (pc = "done" /\ PartlyResolved /\ StartResolves) =>
    /\ "scene" \in stages
    /\ engine_calls # <<>>
    /\ result = SUCCESS \/ Len(engine_calls) = Len(goals_)

\* C7 (amended): when some constraint of a call resolved and another did
\* not, the deadline has been reached; goal resolution succeeds, the engine
\* is never called, and the call returns TIMED_OUT (FAILURE when start
\* resolution fails).
C7_PartialResolution ==
  (InCall /\ PartlyResolved) =>
    /\ ~SamplingTimeLeft(now, terminate_plan_time_)
    /\ engine_calls = <<>>
    /\ pc = "done" =>
         /\ "scene" \in stages
         /\ result = IF StartResolves THEN TIMED_OUT ELSE FAILURE

\* C7: a call in which one constraint resolved and another did not has
\* returned TIMED_OUT
C7_Witness ==
  /\ pc = "done"
  /\ PartlyResolved
  /\ "start" \in stages
  /\ result = TIMED_OUT

\* C8 (as claimed): every goal searched by the engine in a call was resolved
\* from a constraint of that call (it is not one that goals_ held when the
\* call was entered), and goal resolution succeeds only if a constraint of
\* the call resolved.
C8_GoalsNotReused ==
  /\ \A k \in 1..Len(engine_calls) : engine_calls[k].index > Len(goals_) - NumResolved
  /\ (pc = "scene" \/ "scene" \in stages) => NumResolved > 0

\* C9 (as claimed): when the conversion of the scene failed, the call
\* returns FAILURE and the engine is not called.
C9_ConversionFailureAborts ==
  collision_voxels = "failed" =>
    /\ engine_calls = <<>>
    /\ pc = "done" => result = FAILURE

\* C10 (as claimed): when the request has joint positions and some active
\* joint of the group is not among its joint names, start resolution fails
\* and the call returns FAILURE without an engine search.
C10_AbsentJointFails ==
  ( /\ "start" \in stages
    /\ request_.start_state.joint_state.position # <<>>
    /\ \E joint_name \in Range(joint_model_names_) :
         joint_name \notin Range(request_.start_state.joint_state.name) ) =>
    /\ pc = "done"
    /\ result = FAILURE
    /\ engine_calls = <<>>

\* the current call has got to the loop over goals_
ReachedLoop == "start" \in stages /\ StartResolves

\* C11 (as claimed): while the context is configured, roadmap_configs_ and
\* roadmap_poses_ are not empty and every configuration of roadmap_configs_
\* has as many values as the planning group has active joints.
C11_ConfiguredRoadmapValid ==
  configured_ =>
    /\ roadmap_configs_ # <<>>
    /\ roadmap_poses_ # <<>>
    /\ \A i \in 1..Len(roadmap_configs_) :
         Len(roadmap_configs_[i]) = Len(ActiveJointModelNames)

\* C12: the deadline of a call is its start time plus the allowed planning
\* time for as long as the call runs; every timeout given to the engine is
\* positive and at most the allowed planning time, and the timeout of a
\* search is at most that of the search before it less the time that one
\* took (timeouts in milliseconds, times in seconds).
C12_DeadlineMonotonicity ==
  InCall =>
    /\ terminate_plan_time_ = start_time + request_.allowed_planning_time
    /\ \A k \in 1..Len(engine_calls) :
         /\ engine_calls[k].timeout > 0
         /\ engine_calls[k].timeout <= request_.allowed_planning_time * 1000
         /\ k > 1 =>
              engine_calls[k].timeout
                <= engine_calls[k - 1].timeout - engine_calls[k - 1].took * 1000

\* C12: the first search took time and a second search got a smaller timeout
C12_Witness ==
  /\ Len(engine_calls) >= 2
  /\ engine_calls[1].took > 0
  /\ engine_calls[2].timeout < engine_calls[1].timeout
  /\ engine_calls[2].timeout > 0

\* C13: a call returns PLANNING_FAILED exactly when every goal of goals_
\* was searched and no search gave a non-empty path; it returns TIMED_OUT
\* exactly when it got to the loop and left it before a goal that was not
\* searched, without a path; then the time left is not positive, and no
\* search is ever started with no time left.
C13_TerminalFailures ==
  /\ \A k \in 1..Len(engine_calls) : engine_calls[k].timeout > 0
  /\ pc = "done" =>
       /\ result = PLANNING_FAILED <=>
            /\ engine_calls # <<>>
            /\ Len(engine_calls) = Len(goals_)
            /\ \A k \in 1..Len(engine_calls) : ~FoundPath(k)
       /\ result = TIMED_OUT <=>
            /\ ReachedLoop
            /\ Len(engine_calls) < Len(goals_)
            /\ \A k \in 1..Len(engine_calls) : ~FoundPath(k)
       /\ result = TIMED_OUT =>
            /\ Timeout(terminate_plan_time_, now) <= 0
            /\ gi = Len(engine_calls) + 1

\* C13: one call has searched a goal and then timed out before the next
C13_Witness ==
  /\ pc = "done"
  /\ result = TIMED_OUT
  /\ Len(engine_calls) = 1
  /\ Len(goals_) >= 2

\* C18: once a constraint of a call has given no goal, the deadline has
\* been reached: no later constraint of the call gives a goal, the engine
\* is never called, and the call returns FAILURE or TIMED_OUT.
C18_UnresolvedMeansDeadline ==
  (InCall /\ FALSE \in Range(resolved)) =>
    /\ now >= terminate_plan_time_
    /\ \A i, j \in 1..Len(resolved) : (i < j /\ ~resolved[i]) => ~resolved[j]
    /\ engine_calls = <<>>
    /\ pc = "done" => result \in {FAILURE, TIMED_OUT}

\* C18: with planning time allowed, neither of two constraints gave a
\* goal and the call has returned
C18_Witness ==
  /\ pc = "done"
  /\ request_.allowed_planning_time > 0
  /\ resolved = <<FALSE, FALSE>>
  /\ result \in {FAILURE, TIMED_OUT}

\* the goals the current call has put into goals_ so far
FreshGoals == { k \in 1..Len(goals_) : k > Len(goals_) - NumResolved }

\* C14 (as claimed): a constraint with no joint, position or orientation
\* sub-constraint gives no goal, and a call whose constraints are all of
\* that kind returns FAILURE.
C14_EmptyConstraintGivesNothing ==
  InCall =>
    /\ \A i \in 1..Len(resolved) :
         Samplers(request_.goal_constraints[i]) = <<>> => ~resolved[i]
    /\ ( /\ pc = "done"
         /\ request_.goal_constraints # <<>>
         /\ \A i \in 1..Len(request_.goal_constraints) :
              Samplers(request_.goal_constraints[i]) = <<>> )
       => result = FAILURE

C19_Outputs ==
  InCall =>
    /\ trajectory # Unwritten => result = SUCCESS
    /\ planning_time # Unwritten => ReachedLoop
    /\ pc = "done" =>
         /\ result = SUCCESS => trajectory # Unwritten
         /\ result = FAILURE => (trajectory = Unwritten /\ planning_time = Unwritten)
         /\ ReachedLoop => planning_time # Unwritten

\* C19: solve() writes the trajectory if and only if it returns SUCCESS and
\* the planning time only if it has got to the loop over goals_; a call
\* that returns FAILURE has written neither; and no step of a call changes
\* configured_, roadmap_configs_ or roadmap_poses_.
C19_SolveFrame ==
  /\ []C19_Outputs
  /\ [][(pc # "idle" \/ pc' # "idle")
         => UNCHANGED << configured_, roadmap_configs_, roadmap_poses_ >>]_vars

\* C19: a call has returned SUCCESS with both outputs written
C19_Witness ==
  /\ pc = "done"
  /\ result = SUCCESS
  /\ trajectory # Unwritten
  /\ planning_time # Unwritten
  /\ configured_

\* the number of entries the response held when the current call of
\* solve(MotionPlanDetailedResponse&) began
EarlierEntries == Cardinality({ i \in 1..Len(res.description_) :
                                 res.description_[i] = EarlierDescription })

\* C16: terminate() returns false whenever it is called, and a call of it
\* changes nothing of the context, of a running call of solve() or of what
\* solve() has given its caller.
C16_TerminateFrame ==
  /\ [](terminate_result \in {NotReturned, << FALSE >>})
  /\ [][terminate_result' # terminate_result
         => /\ terminate_result' = << FALSE >>
            /\ UNCHANGED << planning_scene_, config_vars, request_, goals_,
                            goal_states_, terminate_plan_time_, now, pc, call_vars,
                            res, detailed_return >>]_vars

\* C16: terminate() has returned false and a call of solve() has returned
\* SUCCESS all the same
C16_Witness ==
  /\ terminate_result = << FALSE >>
  /\ pc = "done"
  /\ result = SUCCESS
  /\ engine_calls # <<>>

\* C20: while solve(MotionPlanDetailedResponse&) runs, the trajectories and
\* the processing times of the response hold the entries of earlier calls
\* and one more; once it has returned, the descriptions do too, the entries
\* of earlier calls are as they were, the new ones are what solve() wrote,
\* and the call has returned true exactly when the error code is SUCCESS.
C20_DetailedResponse ==
  res # NoResponse =>
    LET n == EarlierEntries
    IN  /\ Len(res.trajectory_) = n + 1
        /\ Len(res.processing_time_) = n + 1
        /\ \A i \in 1..n :
             /\ res.trajectory_[i] = EarlierEntry
             /\ res.processing_time_[i] = EarlierEntry
             /\ res.description_[i] = EarlierDescription
        /\ ~res.trajectory_[n + 1].earlier
        /\ ~res.processing_time_[n + 1].earlier
        /\ IF pc = "responded"
           THEN /\ res.description_ = [i \in 1..n |-> EarlierDescription] \o << "plan" >>
                /\ res.error_code_ = result
                /\ detailed_return = << res.error_code_ = SUCCESS >>
                /\ res.trajectory_[n + 1].value = trajectory
                /\ planning_time # Unwritten
                     => res.processing_time_[n + 1].value = planning_time
           ELSE /\ Len(res.description_) = n
                /\ detailed_return = NotReturned

\* C20: a call on a response with an earlier entry has returned FAILURE and
\* false, and has added its entry to each of the three lists
C20_Witness ==
  /\ res # NoResponse
  /\ pc = "responded"
  /\ EarlierEntries = 1
  /\ result = FAILURE
  /\ detailed_return = << FALSE >>
  /\ Len(res.trajectory_) = 2
  /\ Len(res.processing_time_) = 2
  /\ Len(res.description_) = 2

\* C17: a constraint of a call gives no goal only when the clock has
\* reached the deadline; before the deadline an iteration of the sampling
\* loop either stays with its constraint or has found it a goal; and, with
\* the steps of the call taken and the clock advancing, every call of
\* solve() returns one of the four codes.
C17_SolveReturns ==
  /\ []((InCall /\ FALSE \in Range(resolved)) => now >= terminate_plan_time_)
  /\ [][( /\ pc = "goals"
          /\ ci <= Len(request_.goal_constraints)
          /\ now < terminate_plan_time_ )
         => /\ pc' = "goals"
            /\ \/ (ci' = ci /\ resolved' = resolved)
               \/ (ci' = ci + 1 /\ resolved' = Append(resolved, TRUE))]_vars
  /\ (pc # "idle")
       ~> (pc = "done" /\ result \in {SUCCESS, FAILURE, PLANNING_FAILED, TIMED_OUT})

\* C17: with planning time allowed, a call has returned after the sampling
\* loop gave up on a constraint at the deadline
C17_Witness ==
  /\ pc = "done"
  /\ request_.allowed_planning_time > 0
  /\ FALSE \in Range(resolved)
  /\ now >= terminate_plan_time_
  /\ result \in {FAILURE, TIMED_OUT}

====
